---- MODULE Spec2Model ----
(***************************************************************************)
(* amt-notifier: the session manager, the availability fetcher with its    *)
(* notification step, and the two scheduler jobs that drive them.          *)
(*                                                                         *)
(* Threads: "fetch" runs the scheduler's fetch_availability job, "refresh" *)
(* runs the scheduler's open_session job (scheduler/tasks.py).  Python's   *)
(* None is the string NoneValue; a list is a sequence; the subscriber's    *)
(* preferred_locations text is a sequence of one-character strings.        *)
(***************************************************************************)
EXTENDS Integers, Sequences, FiniteSets, TLC

(* ------------------------------ bounds -------------------------------- *)
\* how many of the configured locations one cycle of the model polls
NumLocations == 2
\* longest 'availability-dates' array the remote service answers with
MaxEntries == 2
\* fetch cycles and session-refresh runs the scheduler triggers
MaxCycles == 2
MaxRefreshes == 1
\* get_availability_data() calls of the other threads
MaxReads == 1
\* what one caller does to the value it got
MaxCallerOps == 1
\* Telegram updates the users send: to the bot alone, and while the fetch
\* job runs
MaxUpdates == 5
MaxUpdatesBesideFetch == 3
MaxLockCycles == 1
MoreLocations == 3

(* ------------------------- program constants --------------------------- *)
\* config.py LOCATION_NAMES keys, in dictionary order
LOCATIONS == <<1, 5, 6, 7, 8, 9, 10>>
max_attempts == 5
MsPerSecond == 1000
SecondsPerDay == 86400

NoneValue == "None"
Tokens == {"t1", "t2"}
Threads == {"fetch", "refresh"}

Min(a, b) == IF a < b THEN a ELSE b
Range(s) == {s[k] : k \in 1..Len(s)}
\* a configuration of the first n locations of the list
Configured(n) == SubSeq(LOCATIONS, 1, Min(n, Len(LOCATIONS)))

\* Python truthiness of a token: None and '' are falsy
Falsy(v) == v \in {NoneValue, ""}

(* --------------------------- text helpers ------------------------------ *)
Digits == <<"0", "1", "2", "3", "4", "5", "6", "7", "8", "9">>

\* str(n) for a non-negative integer, as a sequence of characters
RECURSIVE Str(_)
Str(n) == IF n < 10 THEN <<Digits[n + 1]>>
          ELSE Str(n \div 10) \o <<Digits[(n % 10) + 1]>>

\* text.split(','): the pieces between the commas, in order
RECURSIVE SplitFrom(_, _, _)
SplitFrom(text, k, piece) ==
    IF k > Len(text) THEN <<piece>>
    ELSE IF text[k] = "," THEN <<piece>> \o SplitFrom(text, k + 1, <<>>)
    ELSE SplitFrom(text, k + 1, Append(piece, text[k]))

Split(text) == SplitFrom(text, 1, <<>>)

(* ------------------------------ state ---------------------------------- *)
VARIABLES
    auth_token,         \* SessionManager.auth_token
    sm_lock,            \* SessionManager.lock: "free" or the thread holding it
    os,                 \* per thread: its open_session call (pc, attempt, before, result)
    availability_data,  \* AvailabilityFetcher.availability_data: location -> list
    lock,               \* AvailabilityFetcher.lock: "free" or the thread holding it
    subscribers,        \* rows of the subscribers table, in query order
    pc,                 \* where the fetch thread is in fetch_availability
    loc_idx,            \* position of the for loop in self.locations
    headers,            \* headers['Authorization'] of the running cycle
    dates_list,         \* process_data's local dates_list
    step,               \* what the cycle did for the current location
    requested,          \* locations requested so far in this cycle, in order
    failed,             \* locations of this cycle whose pass ended in an error
    fetch_exit,         \* how the last fetch_availability call ended
    cycles,             \* fetch cycles started
    refreshes,          \* session-refresh runs started
    held,               \* a caller holds a value get_availability_data() returned
    copy,               \* the entry of that value the caller uses: location,
                        \* list, and whether the list is the very object the
                        \* fetcher stores
    reads,              \* get_availability_data() calls made
    ops,                \* what the caller did to the value since
    conv,               \* per user: the state of the two ConversationHandlers
    updates,            \* Telegram updates the users have still to send
    last,               \* the update handled last: handler, outcome, reply
    unsub_at,           \* per chat: the fetch cycle count when its unsubscribe
                        \* committed, as a set; empty when it is not unsubscribed
    main_pc,            \* where the main thread is: "start", "open_session",
                        \* "fetch", "serving" (scheduler started), "exited"
    work,               \* the remote work of the running cycle, when it is
                        \* counted (availability requests, session-creation
                        \* requests, notification batches per location), and
                        \* the tokens of the cycle, when they are tracked
                        \* (read before the loop, read for the last retry,
                        \* left by the last successful re-open)
    new_dates,          \* process_data's new_dates, when the parse loop is
                        \* followed entry by entry
    parse,              \* the dates_list that loop built from it
    locations           \* AvailabilityFetcher.locations

vars == <<auth_token, sm_lock, os, availability_data, lock, subscribers, pc,
          loc_idx, headers, dates_list, step, requested, failed, fetch_exit,
          cycles, refreshes, held, copy, reads, ops, conv, updates, last, unsub_at,
          main_pc, work, new_dates, parse, locations>>

sessionVars == <<auth_token, sm_lock, os>>
fetchVars == <<availability_data, lock, pc, loc_idx, headers, dates_list, step,
               requested, failed, fetch_exit, cycles, work>>
callerVars == <<held, copy, reads, ops>>
botVars == <<conv, updates, last, unsub_at>>
appVars == <<main_pc>>
parseVars == <<new_dates, parse>>
configVars == <<locations>>

\* the locations the fetcher polls
Locs == locations


(* --------------------- what the remote service answers ----------------- *)
\* POST sessions/<n>: an exception of requests, an error status, a body that
\* is no JSON, a JSON body that is no object, or an object whose 'id' is
\* missing (None), empty or a token
PostOutcomes ==
    [kind : {"transport", "http_error", "invalid_json", "not_object"}, id : {NoneValue}]
    \cup [kind : {"object"}, id : {NoneValue, ""} \cup Tokens]

\* millisecond timestamps: the last millisecond of day 0 and the first of day 1
Timestamps == {86399999, 86400000}
DateTexts == <<"01.01.1970", "02.01.1970">>

\* one element of 'availability-dates': an int, a string, the JSON value true
\* (Python's True, whose int value is 1) or something else (null, a float, an
\* object without 'date'), bare or as the 'date' field of an object
Entries == [wrapped : BOOLEAN, type : {"int"}, int : Timestamps, str : {""}]
           \cup [wrapped : BOOLEAN, type : {"bool"}, int : {1}, str : {""}]
           \cup [wrapped : BOOLEAN, type : {"str"}, int : {0}, str : Range(DateTexts)]
           \cup [wrapped : BOOLEAN, type : {"other"}, int : {0}, str : {""}]

EntryLists == UNION {[1..n -> Entries] : n \in 0..MaxEntries}

\* the body of an availability response
Bodies == [json : {"invalid", "not_object"}, has_dates : {FALSE}, entries : {<<>>}]
          \cup [json : {"object"}, has_dates : {FALSE}, entries : {<<>>}]
          \cup [json : {"object"}, has_dates : {TRUE}, entries : EntryLists]

\* the bodies of error answers: no JSON, or an object that could be read
ErrorBodies == {b \in Bodies : b.json = "invalid" \/ (b.has_dates /\ Len(b.entries) = 1)}

\* GET availabilities/dates: an exception of requests, or a status with a body
Responses == [status : {"exception"},
              body : {[json |-> "invalid", has_dates |-> FALSE, entries |-> <<>>]}]
             \cup [status : {"401", "500"}, body : ErrorBodies]
             \cup [status : {"200"}, body : Bodies]

(* --------------------------- SessionManager ---------------------------- *)
\* sent is the Authorization header of the call's last request
NoCall == [pc |-> "none", attempt |-> 0, before |-> NoneValue, result |-> "none",
           sent |-> "none"]

\* a header that carries the token whatever it is
SessionAuthorization_NoSentinel(token) == token

\* the Authorization header of a session-creation request
SessionAuthorization(token) == IF Falsy(token) THEN "null" ELSE token

\* a loop that takes an answer without an id as one more failed attempt
AttemptStatus_RetryNoId(outcome) ==
    CASE outcome.kind \in {"transport", "http_error", "invalid_json"} -> "continue"
      [] outcome.kind = "not_object" -> "raise"
      [] outcome.kind = "object" -> IF Falsy(outcome.id) THEN "continue" ELSE "true"

\* what one pass of the try block does with the answer: "continue" with the
\* next attempt, return True ("true"), return False for want of an id
\* ("false_no_id"), or "raise" out of open_session (AttributeError is not caught)
AttemptStatus(outcome) ==
    CASE outcome.kind \in {"transport", "http_error"} -> "continue"
      [] outcome.kind = "invalid_json" -> "continue"
      [] outcome.kind = "not_object" -> "raise"
      [] outcome.kind = "object" -> IF Falsy(outcome.id) THEN "false_no_id" ELSE "true"

\* self.auth_token after the pass: assigned from data.get('id') before the test
TokenAfter(token, outcome) ==
    IF outcome.kind = "object" THEN outcome.id ELSE token

\* a loop that runs once too often
CallResult_OneMore(n, outcome) ==
    IF AttemptStatus(outcome) = "continue"
    THEN (IF n > max_attempts THEN "false_exhausted" ELSE "none")
    ELSE AttemptStatus(outcome)

\* how the call stands after pass number n: "none" while the loop goes on,
\* "false_exhausted" for the return False after the loop
CallResult(n, outcome) ==
    IF AttemptStatus(outcome) = "continue"
    THEN (IF n >= max_attempts THEN "false_exhausted" ELSE "none")
    ELSE AttemptStatus(outcome)

\* the value open_session returned
ReturnedTrue(result) == result = "true"
ReturnedFalse(result) == result \in {"false_no_id", "false_exhausted"}

\* a thread enters open_session and waits for the lock
CallOpenSession(t) == [os EXCEPT ![t] = [NoCall EXCEPT !.pc = "lock"]]

\* with self.lock: taken
OpenSessionLock(t) ==
    /\ os[t].pc = "lock"
    /\ sm_lock = "free"
    /\ sm_lock' = t
    /\ os' = [os EXCEPT ![t].pc = "attempt", ![t].before = auth_token]
    /\ UNCHANGED auth_token

\* what is left of a call that ended: its result, and for the return at line
\* 42 the number of the pass that made it
Returned(res, n) ==
    [NoCall EXCEPT !.result = res, !.attempt = IF res = "false_no_id" THEN n ELSE 0]

\* a lock released by hand at the end of the loop only, not at the return
\* inside it
SessionLockAfter_KeptOnNoId(t, res) ==
    IF res \in {"none", "false_no_id"} THEN t ELSE "free"

\* with self.lock: the lock is the thread's until the call leaves the block,
\* by a return or by an exception
SessionLockAfter(t, res) == IF res = "none" THEN t ELSE "free"

\* one pass of the for loop (os[t].attempt counts the passes made); when the
\* call ends the lock is released and only the result is left of the call
OpenSessionAttempt(t, outcome) ==
    /\ os[t].pc = "attempt"
    /\ sm_lock = t
    /\ LET n == os[t].attempt + 1
           res == CallResult(n, outcome)
       IN /\ auth_token' = TokenAfter(auth_token, outcome)
          /\ os' = [os EXCEPT ![t] =
                        IF res = "none"
                        THEN [@ EXCEPT !.attempt = n,
                                       !.sent = SessionAuthorization(auth_token)]
                        ELSE IF res = "false_exhausted"
                        THEN [Returned(res, n) EXCEPT
                                 !.sent = SessionAuthorization(auth_token)]
                        ELSE Returned(res, n)]
          /\ sm_lock' = SessionLockAfter(t, res)

\* a read of the token that takes no lock
CanGetAuthToken_NoLock == TRUE

\* get_auth_token(): with self.lock: return self.auth_token
CanGetAuthToken == sm_lock = "free"

(* ------------------------------ scheduler ------------------------------ *)
\* add_job(...) names no max_instances: the scheduler's default of one running
\* instance per job
max_instances == 1

\* the running instances of a job
Running(job) ==
    IF job = "fetch" THEN (IF pc = "idle" THEN 0 ELSE 1)
    ELSE (IF os["refresh"].pc = "none" THEN 0 ELSE 1)

\* a scheduler that starts a run at every trigger
CanSubmit_NoLimit(job) == main_pc = "serving"

\* a trigger of a started scheduler starts a run unless the job has reached
\* its instance limit; else the run is skipped
CanSubmit(job) == main_pc = "serving" /\ Running(job) < max_instances

(* ------------------- scheduler job: session refresh -------------------- *)
RefreshStart ==
    /\ CanSubmit("refresh")
    /\ refreshes < MaxRefreshes
    /\ refreshes' = refreshes + 1
    /\ os' = CallOpenSession("refresh")
    /\ UNCHANGED <<auth_token, sm_lock, subscribers>>
    /\ UNCHANGED fetchVars
    /\ UNCHANGED callerVars
    /\ UNCHANGED <<botVars, appVars, parseVars, configVars>>

RefreshLock ==
    /\ OpenSessionLock("refresh")
    /\ UNCHANGED <<subscribers, refreshes>>
    /\ UNCHANGED fetchVars
    /\ UNCHANGED callerVars
    /\ UNCHANGED <<botVars, appVars, parseVars, configVars>>

RefreshAttempt ==
    /\ \E outcome \in PostOutcomes : OpenSessionAttempt("refresh", outcome)
    /\ UNCHANGED <<subscribers, refreshes>>
    /\ UNCHANGED fetchVars
    /\ UNCHANGED callerVars
    /\ UNCHANGED <<botVars, appVars, parseVars, configVars>>

(* ------------------------- AvailabilityFetcher ------------------------- *)
location == Locs[loc_idx]

\* the record of one pass of the for loop: requests and open_session calls
\* made, the status of the retry's answer, whether the body handed to
\* process_data had 'availability-dates' (field), the stored list when the
\* pass began (before) and when process_data compared (prev), whether
\* process_data compared, and the notification batch
NoStep == [reqs |-> 0, opens |-> 0, retry |-> "none", field |-> "none",
           before |-> <<>>, compared |-> FALSE, prev |-> <<>>,
           query |-> "none", deliveries |-> <<>>]

StartStep(loc) == [NoStep EXCEPT !.before = availability_data[loc]]

\* datetime.fromtimestamp(timestamp / 1000).strftime('%d.%m.%Y'), in UTC
StrFTime(timestamp) == DateTexts[((timestamp \div MsPerSecond) \div SecondsPerDay) + 1]

\* entry.get('date') if isinstance(entry, dict) else entry
TimestampOf(entry) == [type |-> entry.type, int |-> entry.int, str |-> entry.str]

\* isinstance(timestamp, int): bool is a subclass of int
IsInstanceInt(timestamp) == timestamp.type \in {"int", "bool"}

\* isinstance(timestamp, str)
IsInstanceStr(timestamp) == timestamp.type = "str"

\* the dates one entry adds to dates_list
ParseEntry(entry) ==
    LET timestamp == TimestampOf(entry)
    IN CASE IsInstanceInt(timestamp) -> <<StrFTime(timestamp.int)>>
         [] IsInstanceStr(timestamp) -> <<timestamp.str>>
         [] OTHER -> <<>>

\* the for loop over new_dates
RECURSIVE ParseEntries(_)
ParseEntries(entries) ==
    IF entries = <<>> THEN <<>>
    ELSE ParseEntry(Head(entries)) \o ParseEntries(Tail(entries))

\* nothing parsed yet
NotParsed == [done |-> FALSE, dates |-> <<>>]

\* the parse loop of process_data on its own, fed one list of entries
ProcessDataParse ==
    /\ ~parse.done
    /\ parse' = [done |-> TRUE, dates |-> ParseEntries(new_dates)]
    /\ UNCHANGED <<sessionVars, fetchVars, callerVars, botVars, appVars>>
    /\ UNCHANGED <<subscribers, refreshes, new_dates, locations>>

\* whether data has the key 'availability-dates'
FieldOf(body) == IF body.has_dates THEN "present" ELSE "missing"

\* data.get('availability-dates', [])
NewDates(body) == IF body.has_dates THEN body.entries ELSE <<>>

\* response.json() and data.get(...) both work
Parses(body) == body.json = "object"

\* a comparison of the lists themselves, not of their sets
DatesDiffer_ListCompare(new, current) == new # current

\* new_dates_set != current_dates_set
DatesDiffer(new, current) == Range(new) # Range(current)

\* str(location) in subscriber.preferred_locations.split(',')
Interested(subscriber, loc) ==
    \E k \in 1..Len(Split(subscriber.preferred_locations)) :
        Split(subscriber.preferred_locations)[k] = Str(loc)

\* the message of notify_subscribers: the location's name and the joined dates
Message(loc, dates) == [location |-> loc, dates |-> dates]

\* a batch that ends with the first send_message that raises
RECURSIVE Deliver_StopAtFailure(_, _, _, _)
Deliver_StopAtFailure(rows, loc, dates, failing) ==
    IF rows = <<>> THEN <<>>
    ELSE IF ~Interested(Head(rows), loc)
         THEN Deliver_StopAtFailure(Tail(rows), loc, dates, failing)
    ELSE IF Head(rows).chat_id \in failing
         THEN <<[chat_id |-> Head(rows).chat_id, text |-> Message(loc, dates), ok |-> FALSE]>>
    ELSE <<[chat_id |-> Head(rows).chat_id, text |-> Message(loc, dates), ok |-> TRUE]>>
         \o Deliver_StopAtFailure(Tail(rows), loc, dates, failing)

\* the send_message calls of one batch over the queried rows, in row order;
\* the chat ids in failing raise inside send_message
RECURSIVE Deliver(_, _, _, _)
Deliver(rows, loc, dates, failing) ==
    IF rows = <<>> THEN <<>>
    ELSE (IF Interested(Head(rows), loc)
          THEN <<[chat_id |-> Head(rows).chat_id, text |-> Message(loc, dates),
                  ok |-> Head(rows).chat_id \notin failing]>>
          ELSE <<>>)
         \o Deliver(Tail(rows), loc, dates, failing)

ChatIds == {subscribers[k].chat_id : k \in 1..Len(subscribers)}

\* dict.copy(): the same list objects under a new dict; l is the key the
\* caller uses
DictCopy(data, l) == [loc |-> l, shared |-> TRUE, list |-> data[l]]

NoCopy == [loc |-> Locs[1], shared |-> FALSE, list |-> <<>>]

\* lists a caller puts into the returned dict
CallerLists == {<<>>, <<"x">>}

\* list.append("x"), list.pop() and list.clear() of a caller
Mutations(dates) ==
    (IF Len(dates) < MaxEntries THEN {Append(dates, "x")} ELSE {})
    \cup (IF dates # <<>> THEN {SubSeq(dates, 1, Len(dates) - 1), <<>>} ELSE {})

\* a cycle's work when none is counted, and the counting of one availability
\* request, one session-creation request of the cycle and one call of
\* notify_subscribers
NoWork == [on |-> FALSE, reqs |-> 0, posts |-> 0, batches |-> [l \in Range(Locs) |-> 0],
           track |-> FALSE, first |-> "unset", retry |-> "unset",
           refreshed |-> "unset", last_reopen |-> "none"]

CountRequest(w) == IF w.on THEN [w EXCEPT !.reqs = @ + 1] ELSE w

CountPost(w) == IF w.on THEN [w EXCEPT !.posts = @ + 1] ELSE w

CountBatch(w, loc) == IF w.on THEN [w EXCEPT !.batches[loc] = @ + 1] ELSE w

\* the token get_auth_token() returned before the loop
TrackFirst(w, token) == IF w.track THEN [w EXCEPT !.first = token] ELSE w

\* the end of an open_session call made after a 401, and the token it left
TrackReopen(w, site, result, token) ==
    IF ~w.track \/ site # "reopen" \/ result = "none" THEN w
    ELSE IF ReturnedTrue(result)
         THEN [w EXCEPT !.last_reopen = "ok", !.refreshed = token]
         ELSE [w EXCEPT !.last_reopen = "failed"]

\* the token get_auth_token() returned for the retry
TrackRetry(w, token) == IF w.track THEN [w EXCEPT !.retry = token] ELSE w

\* a call of fetch_availability begins
BeginFetch ==
    /\ cycles' = cycles + 1
    /\ pc' = "check_token"
    /\ loc_idx' = 1
    /\ headers' = NoneValue
    /\ dates_list' = <<>>
    /\ step' = NoStep
    /\ requested' = <<>>
    /\ failed' = {}
    /\ fetch_exit' = "none"
    /\ os' = [os EXCEPT !["fetch"] = NoCall]
    /\ UNCHANGED <<auth_token, sm_lock, availability_data, lock, subscribers, refreshes>>
    /\ UNCHANGED <<held, copy, reads, ops>>
    /\ UNCHANGED botVars
    /\ work' = [NoWork EXCEPT !.on = work.on, !.track = work.track]

\* the scheduler triggers fetch_availability
FetchStart ==
    /\ CanSubmit("fetch")
    /\ cycles < MaxCycles
    /\ BeginFetch
    /\ UNCHANGED <<appVars, parseVars, configVars>>

\* auth_token = get_auth_token(); if not auth_token: open_session()
FetchCheckToken ==
    /\ pc = "check_token"
    /\ CanGetAuthToken
    /\ IF Falsy(auth_token)
       THEN /\ pc' = "open_initial"
            /\ os' = CallOpenSession("fetch")
       ELSE /\ pc' = "build_headers"
            /\ UNCHANGED os
    /\ UNCHANGED <<auth_token, sm_lock, availability_data, lock, subscribers, loc_idx,
                   headers, dates_list, step, requested, failed, fetch_exit, cycles, refreshes>>
    /\ UNCHANGED <<held, copy, reads, ops>>
    /\ UNCHANGED <<botVars, appVars, parseVars, configVars>>
    /\ UNCHANGED work

FetchOpenLock ==
    /\ pc \in {"open_initial", "reopen"}
    /\ OpenSessionLock("fetch")
    /\ UNCHANGED <<availability_data, lock, subscribers, pc, loc_idx, headers,
                   dates_list, step, requested, failed, fetch_exit, cycles, refreshes>>
    /\ UNCHANGED <<held, copy, reads, ops>>
    /\ UNCHANGED <<botVars, appVars, parseVars, configVars>>
    /\ UNCHANGED work

\* a cycle that goes on without a session
AfterOpen_IgnoreFailure(site, result) ==
    CASE result = "none" -> site
      [] site = "open_initial" /\ result # "raise" -> "build_headers"
      [] site = "open_initial" -> "idle"
      [] site = "reopen" /\ result = "true" -> "retry_token"
      [] OTHER -> "loc_done"

\* where fetch_availability goes on when its open_session call ends: the call
\* before the loop is outside the try, the one after a 401 inside it
AfterOpen(site, result) ==
    CASE result = "none" -> site
      [] site = "open_initial" /\ ReturnedTrue(result) -> "build_headers"
      [] site = "open_initial" -> "idle"
      [] site = "reopen" /\ ReturnedTrue(result) -> "retry_token"
      [] OTHER -> "loc_done"

\* how fetch_availability ends there, if it does
ExitAfterOpen(site, result) ==
    CASE site = "open_initial" /\ ReturnedFalse(result) -> "no_session"
      [] site = "open_initial" /\ result = "raise" -> "raise"
      [] OTHER -> "none"

FetchOpenAttempt ==
    /\ pc \in {"open_initial", "reopen"}
    /\ \E outcome \in PostOutcomes : OpenSessionAttempt("fetch", outcome)
    /\ pc' = AfterOpen(pc, os'["fetch"].result)
    /\ fetch_exit' = ExitAfterOpen(pc, os'["fetch"].result)
    /\ failed' = IF pc' = "loc_done" THEN failed \cup {location} ELSE failed
    /\ UNCHANGED <<availability_data, lock, subscribers, loc_idx, headers,
                   dates_list, step, requested, cycles, refreshes>>
    /\ UNCHANGED <<held, copy, reads, ops>>
    /\ UNCHANGED <<botVars, appVars, parseVars, configVars>>
    /\ work' = TrackReopen(CountPost(work), pc, os'["fetch"].result, auth_token')

\* headers = {'Authorization': get_auth_token(), ...}, read once before the loop
FetchBuildHeaders ==
    /\ pc = "build_headers"
    /\ CanGetAuthToken
    /\ headers' = auth_token
    /\ pc' = "request"
    /\ step' = StartStep(location)
    /\ UNCHANGED <<auth_token, sm_lock, os, availability_data, lock, subscribers,
                   loc_idx, dates_list, requested, failed, fetch_exit, cycles, refreshes>>
    /\ UNCHANGED <<held, copy, reads, ops>>
    /\ UNCHANGED <<botVars, appVars, parseVars, configVars>>
    /\ work' = TrackFirst(work, auth_token)

\* a loop without the try: an exception of the request ends the cycle
AfterResponse_AbortOnError(response) ==
    CASE response.status = "200" /\ Parses(response.body) -> "pd_lock"
      [] response.status = "401" -> "reopen"
      [] response.status = "exception" -> "idle"
      [] OTHER -> "loc_done"

\* where the loop body goes after the first answer for a location
AfterResponse(response) ==
    CASE response.status = "200" /\ Parses(response.body) -> "pd_lock"
      [] response.status = "401" -> "reopen"
      [] OTHER -> "loc_done"

\* session.get(...) for the current location and the branch on its status
FetchRequest ==
    /\ pc = "request"
    /\ \E response \in Responses :
        /\ pc' = AfterResponse(response)
        /\ dates_list' = IF pc' = "pd_lock"
                         THEN ParseEntries(NewDates(response.body)) ELSE <<>>
        /\ os' = IF pc' = "reopen" THEN CallOpenSession("fetch") ELSE os
        /\ step' = [step EXCEPT !.reqs = @ + 1,
                                !.opens = IF pc' = "reopen" THEN @ + 1 ELSE @,
                                !.field = IF pc' = "pd_lock"
                                          THEN FieldOf(response.body) ELSE @]
    /\ failed' = IF pc' = "loc_done" THEN failed \cup {location} ELSE failed
    /\ requested' = Append(requested, location)
    /\ UNCHANGED <<auth_token, sm_lock, availability_data, lock, subscribers,
                   loc_idx, headers, fetch_exit, cycles, refreshes>>
    /\ UNCHANGED <<held, copy, reads, ops>>
    /\ UNCHANGED <<botVars, appVars, parseVars, configVars>>
    /\ work' = CountRequest(work)

\* a retry that sends the headers as they were
RetryAuthorization_Stale(old, token) == old

\* headers['Authorization'] = self.session_manager.get_auth_token()
RetryAuthorization(old, token) == token

\* headers['Authorization'] = get_auth_token() after a successful re-open
FetchRetryToken ==
    /\ pc = "retry_token"
    /\ CanGetAuthToken
    /\ headers' = RetryAuthorization(headers, auth_token)
    /\ pc' = "retry_request"
    /\ UNCHANGED <<auth_token, sm_lock, os, availability_data, lock, subscribers,
                   loc_idx, dates_list, step, requested, failed, fetch_exit, cycles, refreshes>>
    /\ UNCHANGED <<held, copy, reads, ops>>
    /\ UNCHANGED <<botVars, appVars, parseVars, configVars>>
    /\ work' = TrackRetry(work, auth_token)

\* a retry that leaves out raise_for_status()
AfterRetry_NoRaise(response) ==
    IF response.status # "exception" /\ Parses(response.body) THEN "pd_lock" ELSE "loc_done"

\* the retry: raise_for_status() turns every error status into an exception
AfterRetry(response) ==
    IF response.status = "200" /\ Parses(response.body) THEN "pd_lock" ELSE "loc_done"

FetchRetryRequest ==
    /\ pc = "retry_request"
    /\ \E response \in Responses :
        /\ pc' = AfterRetry(response)
        /\ dates_list' = IF pc' = "pd_lock"
                         THEN ParseEntries(NewDates(response.body)) ELSE <<>>
        /\ step' = [step EXCEPT !.reqs = @ + 1, !.retry = response.status,
                                !.field = IF pc' = "pd_lock"
                                          THEN FieldOf(response.body) ELSE @]
    /\ failed' = IF pc' = "loc_done" THEN failed \cup {location} ELSE failed
    /\ UNCHANGED <<auth_token, sm_lock, os, availability_data, lock, subscribers,
                   loc_idx, headers, requested, fetch_exit, cycles, refreshes>>
    /\ UNCHANGED <<held, copy, reads, ops>>
    /\ UNCHANGED <<botVars, appVars, parseVars, configVars>>
    /\ work' = CountRequest(work)

\* a replacement that drops the entry of a location without dates
Replaced_DropsEmpty(data, loc, dates) ==
    IF dates = <<>> THEN [l \in (DOMAIN data) \ {loc} |-> data[l]]
    ELSE [data EXCEPT ![loc] = dates]

\* self.availability_data[location] = dates_list
Replaced(data, loc, dates) == [data EXCEPT ![loc] = dates]

\* process_data: with self.lock
ProcessDataLock ==
    /\ pc = "pd_lock"
    /\ lock = "free"
    /\ lock' = "fetch"
    /\ pc' = "pd_compare"
    /\ UNCHANGED <<auth_token, sm_lock, os, availability_data, subscribers, loc_idx,
                   headers, dates_list, step, requested, failed, fetch_exit, cycles, refreshes>>
    /\ UNCHANGED <<held, copy, reads, ops>>
    /\ UNCHANGED <<botVars, appVars, parseVars, configVars>>
    /\ UNCHANGED work

\* process_data: compare the two sets; replace the list when they differ (the
\* new list is a new object: a caller's copy keeps the old one)
ProcessDataCompare ==
    /\ pc = "pd_compare"
    /\ step' = [step EXCEPT !.compared = TRUE, !.prev = availability_data[location]]
    /\ IF DatesDiffer(dates_list, availability_data[location])
       THEN /\ availability_data' = Replaced(availability_data, location, dates_list)
            /\ copy' = IF copy.loc = location
                       THEN [copy EXCEPT !.shared = FALSE] ELSE copy
            /\ pc' = "pd_notify"
            /\ UNCHANGED lock
       ELSE /\ pc' = "loc_done"
            /\ lock' = "free"
            /\ UNCHANGED <<availability_data, copy>>
    /\ UNCHANGED <<auth_token, sm_lock, os, subscribers, loc_idx, headers,
                   dates_list, requested, failed, fetch_exit, cycles, refreshes>>
    /\ UNCHANGED <<held, reads, ops>>
    /\ UNCHANGED <<botVars, appVars, parseVars, configVars>>
    /\ UNCHANGED work

\* a notification step that puts the old list back when the query fails
SnapshotAfterNotify_RestoresOnFailure(data, loc, prev, query) ==
    IF query = "fail" THEN [data EXCEPT ![loc] = prev] ELSE data

\* the snapshot when notify_subscribers is over: the method reads its
\* arguments and the table, and no handler of a fault writes the snapshot
SnapshotAfterNotify(data, loc, prev, query) == data

\* notify_subscribers: query all rows, send to the interested ones; a failing
\* query raises through process_data, whose with statement releases the lock
NotifySubscribers ==
    /\ pc = "pd_notify"
    /\ \/ /\ step' = [step EXCEPT !.query = "fail"]
          /\ failed' = failed \cup {location}
       \/ /\ \E failing \in SUBSET ChatIds :
                step' = [step EXCEPT !.query = "ok",
                                     !.deliveries = Deliver(subscribers, location,
                                                            dates_list, failing)]
          /\ UNCHANGED failed
    /\ availability_data' = SnapshotAfterNotify(availability_data, location,
                                                step.prev, step'.query)
    /\ lock' = "free"
    /\ pc' = "loc_done"
    /\ UNCHANGED <<auth_token, sm_lock, os, subscribers, loc_idx,
                   headers, dates_list, requested, fetch_exit, cycles, refreshes>>
    /\ UNCHANGED <<held, copy, reads, ops>>
    /\ UNCHANGED <<botVars, appVars, parseVars, configVars>>
    /\ work' = CountBatch(work, location)

\* the end of the loop body: the next location, or the end of the cycle
FetchNext ==
    /\ pc = "loc_done"
    /\ IF loc_idx < Len(Locs)
       THEN /\ loc_idx' = loc_idx + 1
            /\ pc' = "request"
            /\ step' = StartStep(Locs[loc_idx + 1])
            /\ UNCHANGED <<fetch_exit, headers, failed>>
       ELSE /\ pc' = "idle"
            /\ fetch_exit' = "return"
            /\ headers' = NoneValue
            /\ loc_idx' = 1
            /\ step' = NoStep
            /\ failed' = {}
    /\ dates_list' = <<>>
    /\ os' = [os EXCEPT !["fetch"] = NoCall]
    /\ UNCHANGED <<auth_token, sm_lock, availability_data, lock, subscribers,
                   requested, cycles, refreshes>>
    /\ UNCHANGED <<held, copy, reads, ops>>
    /\ UNCHANGED <<botVars, appVars, parseVars, configVars>>
    /\ UNCHANGED work

(* ---------------- callers of get_availability_data() ------------------- *)
\* a read of the mapping that takes no lock
CanReadData_NoLock == TRUE

\* get_availability_data(): with self.lock
CanReadData == lock = "free"

\* with self.lock: return self.availability_data.copy(): a new dict whose
\* values are the fetcher's own list objects; the caller goes on to work with
\* the entry of one location
GetAvailabilityData ==
    /\ reads < MaxReads
    /\ CanReadData
    /\ reads' = reads + 1
    /\ held' = TRUE
    /\ \E l \in Range(Locs) : copy' = DictCopy(availability_data, l)
    /\ ops' = 0
    /\ UNCHANGED <<auth_token, sm_lock, os, subscribers, refreshes>>
    /\ UNCHANGED fetchVars
    /\ UNCHANGED <<botVars, appVars, parseVars, configVars>>

\* the caller assigns a list of its own to that key of the returned dict
CallerReplaceEntry ==
    /\ held
    /\ ops < MaxCallerOps
    /\ ops' = ops + 1
    /\ \E dates \in CallerLists :
        copy' = [copy EXCEPT !.shared = FALSE, !.list = dates]
    /\ UNCHANGED <<auth_token, sm_lock, os, subscribers, refreshes, held, reads>>
    /\ UNCHANGED <<botVars, appVars, parseVars, configVars>>
    /\ UNCHANGED fetchVars

\* the caller appends to, removes from or clears that list of the returned
\* dict; a list object the fetcher stores changes for the fetcher too
CallerMutateList ==
    /\ held
    /\ ops < MaxCallerOps
    /\ ops' = ops + 1
    /\ \E dates \in Mutations(copy.list) :
        /\ copy' = [copy EXCEPT !.list = dates]
        /\ availability_data' = IF copy.shared
                                THEN [availability_data EXCEPT ![copy.loc] = dates]
                                ELSE availability_data
    /\ UNCHANGED <<auth_token, sm_lock, os, subscribers, refreshes, held, reads>>
    /\ UNCHANGED <<botVars, appVars, parseVars, configVars>>
    /\ UNCHANGED <<lock, pc, loc_idx, headers, dates_list, step, requested, failed,
                   fetch_exit, cycles, work>>

(* ------------------------- app.py: the start-up ------------------------- *)
\* if not session_manager.open_session(): the main thread calls open_session
\* (the main thread is the thread that runs fetch_availability at start-up:
\* its open_session call is os["fetch"])
MainOpenSession ==
    /\ main_pc = "start"
    /\ main_pc' = "open_session"
    /\ os' = CallOpenSession("fetch")
    /\ UNCHANGED <<auth_token, sm_lock, subscribers, refreshes>>
    /\ UNCHANGED <<fetchVars, callerVars, botVars, parseVars, configVars>>

MainOpenLock ==
    /\ main_pc = "open_session"
    /\ OpenSessionLock("fetch")
    /\ UNCHANGED <<subscribers, refreshes, main_pc>>
    /\ UNCHANGED <<fetchVars, callerVars, botVars, parseVars, configVars>>

\* where the main thread goes when the call ends: on to the initial fetch, or
\* out (False is logged and the program ends; an exception ends it too)
AfterMainOpen(result) ==
    CASE result = "none" -> "open_session"
      [] ReturnedTrue(result) -> "fetch"
      [] OTHER -> "exited"

MainOpenAttempt ==
    /\ main_pc = "open_session"
    /\ \E outcome \in PostOutcomes : OpenSessionAttempt("fetch", outcome)
    /\ main_pc' = AfterMainOpen(os'["fetch"].result)
    /\ UNCHANGED <<subscribers, refreshes>>
    /\ UNCHANGED <<fetchVars, callerVars, botVars, parseVars, configVars>>

\* availability_fetcher.fetch_availability(): the initial fetch, in the main
\* thread
MainFetch ==
    /\ main_pc = "fetch"
    /\ pc = "idle"
    /\ fetch_exit = "none"
    /\ BeginFetch
    /\ UNCHANGED <<appVars, parseVars, configVars>>

\* a start of the scheduler that does not wait for the initial fetch
CanStartScheduler_Early == main_pc = "fetch"

\* main() is called when fetch_availability has returned
CanStartScheduler == main_pc = "fetch" /\ pc = "idle" /\ fetch_exit # "none"

\* main(): scheduler.start() (an exception of the initial fetch ends the
\* program instead)
MainStartScheduler ==
    /\ CanStartScheduler
    /\ main_pc' = IF fetch_exit = "raise" THEN "exited" ELSE "serving"
    /\ UNCHANGED <<subscribers, refreshes>>
    /\ UNCHANGED <<sessionVars, fetchVars, callerVars, botVars, parseVars, configVars>>

(* ----------------------------- bot/handlers.py -------------------------- *)
SELECTING_LOCATIONS == 1
UPDATING_LOCATIONS == 2
\* ConversationHandler.END
END == -1

\* the users who write to the bot, and the chat they write in: both are
\* members of one group chat, so their conversations (keyed by chat and user)
\* are two and their chat_id is one
Users == {"u1", "u2"}
ChatOf(u) == 100
BotChats == {ChatOf(u) : u \in Users}

\* the keys of LOCATION_NAMES
LocationIds == Range(LOCATIONS)

\* characters for which str.isdigit() is true and int() raises ValueError
SuperDigits == {"sup2"}

\* input_id.strip()
RECURSIVE LStrip(_)
LStrip(text) == IF text # <<>> /\ Head(text) = " " THEN LStrip(Tail(text)) ELSE text

RECURSIVE RStrip(_)
RStrip(text) ==
    IF text # <<>> /\ text[Len(text)] = " "
    THEN RStrip(SubSeq(text, 1, Len(text) - 1)) ELSE text

Strip(text) == RStrip(LStrip(text))

\* input_id.isdigit()
IsDigit(text) ==
    /\ text # <<>>
    /\ \A k \in 1..Len(text) : text[k] \in Range(Digits) \cup SuperDigits

DigitValue(c) == CHOOSE d \in 0..9 : Digits[d + 1] = c

\* int(input_id) raises ValueError
IntRaises(text) == \E k \in 1..Len(text) : text[k] \in SuperDigits

\* int(input_id) of a string of decimal digits
RECURSIVE IntOf(_)
IntOf(text) ==
    IF Len(text) = 1 THEN DigitValue(text[1])
    ELSE IntOf(SubSeq(text, 1, Len(text) - 1)) * 10 + DigitValue(text[Len(text)])

\* a loop that takes every number, configured or not
RECURSIVE SelectLocations_AnyNumber(_, _)
SelectLocations_AnyNumber(input_ids, selected) ==
    IF input_ids = <<>> THEN [status |-> "parsed", ids |-> selected]
    ELSE LET input_id == Strip(Head(input_ids))
         IN IF ~IsDigit(input_id) THEN [status |-> "invalid_input", ids |-> selected]
            ELSE IF IntRaises(input_id) THEN [status |-> "raise", ids |-> selected]
            ELSE SelectLocations_AnyNumber(Tail(input_ids),
                                           Append(selected, Str(IntOf(input_id))))

\* the for loop over input_ids: it stops at the first element that is no
\* number ("invalid_input"), no configured location ("invalid_number") or
\* that int() rejects ("raise"); else the selected ids as str(loc_id)
RECURSIVE SelectLocations(_, _)
SelectLocations(input_ids, selected) ==
    IF input_ids = <<>> THEN [status |-> "parsed", ids |-> selected]
    ELSE LET input_id == Strip(Head(input_ids))
         IN IF ~IsDigit(input_id) THEN [status |-> "invalid_input", ids |-> selected]
            ELSE IF IntRaises(input_id) THEN [status |-> "raise", ids |-> selected]
            ELSE IF IntOf(input_id) \notin LocationIds
                 THEN [status |-> "invalid_number", ids |-> selected]
            ELSE SelectLocations(Tail(input_ids), Append(selected, Str(IntOf(input_id))))

\* what the handler does with input_text: "raise", "retry" (a reply and the
\* same state again) or "write"
Selection(input_text) ==
    LET parsed == SelectLocations(Split(input_text), <<>>)
    IN [parsed EXCEPT !.status =
            CASE parsed.status = "raise" -> "raise"
              [] parsed.status = "parsed" /\ parsed.ids # <<>> -> "write"
              [] OTHER -> "retry"]

\* ','.join(selected_location_ids)
RECURSIVE Join(_)
Join(ids) ==
    IF ids = <<>> THEN <<>>
    ELSE IF Len(ids) = 1 THEN ids[1]
    ELSE ids[1] \o <<",">> \o Join(Tail(ids))

\* messages the users send in a selection state
Inputs == { <<"5", ",", " ", "1">>, <<"0", "1">>, <<"1", "0">>, <<>>,
            <<"2">>, <<"1", ",">>, <<"1", ",", "x">>, <<"sup2">> }

\* how session.commit() ends, the table's constraints apart
Commits == {"ok", "db_error"}

Row(id, text) == [chat_id |-> id, preferred_locations |-> text]

\* session.query(Subscriber).filter_by(chat_id=chat_id).first(): the position
\* of the row, 0 for None
First(store, chat) ==
    IF \E k \in 1..Len(store) : store[k].chat_id = chat
    THEN CHOOSE k \in 1..Len(store) :
            /\ store[k].chat_id = chat
            /\ \A j \in 1..(k - 1) : store[j].chat_id # chat
    ELSE 0

\* a table without the unique constraint on chat_id
UniqueViolation_NoConstraint(store, row) == FALSE

\* chat_id = Column(Integer, unique=True, ...): the INSERT is rejected
UniqueViolation(store, row) == First(store, row.chat_id) # 0

\* a failed transaction whose pending change stays in the table
Rollback_KeepsPending(store, pending) == pending

\* session.rollback() after a failed write: the table as it was
Rollback(store, pending) == store

\* an unsubscribe that commits without deleting
DeleteRow_KeepsRow(store, chat) == store

\* session.delete(subscriber); session.commit()
DeleteRow(store, chat) == SelectSeq(store, LAMBDA r : r.chat_id # chat)

\* the update handled last
Handled(handler, outcome, reply) == [handler |-> handler, outcome |-> outcome, reply |-> reply]
NoUpdate == Handled("none", "none", "none")

\* /subscribe outside the subscribe conversation
Subscribe(u) ==
    /\ updates > 0
    /\ conv[u].subscribe = END
    /\ updates' = updates - 1
    /\ IF First(subscribers, ChatOf(u)) # 0
       THEN /\ last' = Handled("subscribe", "found", "already_subscribed")
            /\ UNCHANGED conv
       ELSE /\ last' = Handled("subscribe", "not_found", "choose_locations")
            /\ conv' = [conv EXCEPT ![u].subscribe = SELECTING_LOCATIONS]
    /\ UNCHANGED <<subscribers, unsub_at, refreshes>>
    /\ UNCHANGED <<sessionVars, fetchVars, callerVars, appVars, parseVars, configVars>>

\* a text message in state SELECTING_LOCATIONS
LocationSelection(u, input_text, commit) ==
    /\ updates > 0
    /\ conv[u].subscribe = SELECTING_LOCATIONS
    /\ updates' = updates - 1
    /\ LET sel == Selection(input_text)
           row == Row(ChatOf(u), Join(sel.ids))
           pending == Append(subscribers, row)
           error == IF UniqueViolation(subscribers, row) THEN "integrity_error"
                    ELSE IF commit = "db_error" THEN "db_error" ELSE "none"
       IN CASE sel.status = "raise" ->
                 /\ last' = Handled("location_selection", "raise", "none")
                 /\ UNCHANGED <<subscribers, conv, unsub_at>>
            [] sel.status = "retry" ->
                 /\ last' = Handled("location_selection", "invalid", "try_again")
                 /\ UNCHANGED <<subscribers, conv, unsub_at>>
            [] sel.status = "write" /\ error # "none" ->
                 /\ subscribers' = Rollback(subscribers, pending)
                 /\ last' = Handled("location_selection", error, "error")
                 /\ conv' = [conv EXCEPT ![u].subscribe = END]
                 /\ UNCHANGED unsub_at
            [] OTHER ->
                 /\ subscribers' = pending
                 /\ last' = Handled("location_selection", "committed", "subscribed")
                 /\ conv' = [conv EXCEPT ![u].subscribe = END]
                 /\ unsub_at' = [unsub_at EXCEPT ![ChatOf(u)] = {}]
    /\ UNCHANGED refreshes
    /\ UNCHANGED <<sessionVars, fetchVars, callerVars, appVars, parseVars, configVars>>

\* /update outside the update conversation (the subscribe conversation does
\* not take the command)
UpdateSubscription(u) ==
    /\ updates > 0
    /\ conv[u].update = END
    /\ updates' = updates - 1
    /\ IF First(subscribers, ChatOf(u)) = 0
       THEN /\ last' = Handled("update_subscription", "not_found", "not_subscribed")
            /\ UNCHANGED conv
       ELSE /\ last' = Handled("update_subscription", "found", "choose_locations")
            /\ conv' = [conv EXCEPT ![u].update = UPDATING_LOCATIONS]
    /\ UNCHANGED <<subscribers, unsub_at, refreshes>>
    /\ UNCHANGED <<sessionVars, fetchVars, callerVars, appVars, parseVars, configVars>>

\* an update that goes on when the query found no row
MissingRowRaises_Ignored(k) == FALSE

\* subscriber.preferred_locations = ... on the result of first(): None, when
\* no row was found (k = 0), has no such attribute
MissingRowRaises(k) == k = 0

\* a text message in state UPDATING_LOCATIONS that the subscribe conversation,
\* added first, does not take
NewLocationSelection(u, input_text, commit) ==
    /\ updates > 0
    /\ conv[u].update = UPDATING_LOCATIONS
    /\ conv[u].subscribe # SELECTING_LOCATIONS
    /\ updates' = updates - 1
    /\ LET sel == Selection(input_text)
           k == First(subscribers, ChatOf(u))
           pending == IF k = 0 THEN subscribers
                      ELSE [subscribers EXCEPT ![k].preferred_locations = Join(sel.ids)]
           error == IF MissingRowRaises(k) THEN "no_row"
                    ELSE IF commit = "db_error" THEN "db_error" ELSE "none"
       IN CASE sel.status = "raise" ->
                 /\ last' = Handled("new_location_selection", "raise", "none")
                 /\ UNCHANGED <<subscribers, conv>>
            [] sel.status = "retry" ->
                 /\ last' = Handled("new_location_selection", "invalid", "try_again")
                 /\ UNCHANGED <<subscribers, conv>>
            [] sel.status = "write" /\ error # "none" ->
                 /\ subscribers' = Rollback(subscribers, pending)
                 /\ last' = Handled("new_location_selection", error, "error")
                 /\ conv' = [conv EXCEPT ![u].update = END]
            [] OTHER ->
                 /\ subscribers' = pending
                 /\ last' = Handled("new_location_selection", "committed", "updated")
                 /\ conv' = [conv EXCEPT ![u].update = END]
    /\ UNCHANGED <<unsub_at, refreshes>>
    /\ UNCHANGED <<sessionVars, fetchVars, callerVars, appVars, parseVars, configVars>>

\* /unsubscribe, in any conversation state
Unsubscribe(u, commit) ==
    /\ updates > 0
    /\ updates' = updates - 1
    /\ LET pending == DeleteRow(subscribers, ChatOf(u))
       IN CASE commit = "db_error" ->
                 /\ subscribers' = Rollback(subscribers, pending)
                 /\ last' = Handled("unsubscribe", "db_error", "error")
                 /\ UNCHANGED unsub_at
            [] commit = "ok" /\ First(subscribers, ChatOf(u)) = 0 ->
                 /\ last' = Handled("unsubscribe", "not_found", "not_subscribed")
                 /\ UNCHANGED <<subscribers, unsub_at>>
            [] OTHER ->
                 /\ subscribers' = pending
                 /\ last' = Handled("unsubscribe", "committed", "unsubscribed")
                 /\ unsub_at' = [unsub_at EXCEPT ![ChatOf(u)] = {cycles}]
    /\ UNCHANGED <<conv, refreshes>>
    /\ UNCHANGED <<sessionVars, fetchVars, callerVars, appVars, parseVars, configVars>>

\* /cancel: the fallback of the conversation the user is in
Cancel(u) ==
    /\ updates > 0
    /\ conv[u].subscribe # END \/ conv[u].update # END
    /\ updates' = updates - 1
    /\ conv' = IF conv[u].subscribe # END
               THEN [conv EXCEPT ![u].subscribe = END]
               ELSE [conv EXCEPT ![u].update = END]
    /\ last' = Handled("cancel", "none", "cancelled")
    /\ UNCHANGED <<subscribers, unsub_at, refreshes>>
    /\ UNCHANGED <<sessionVars, fetchVars, callerVars, appVars, parseVars, configVars>>

(* --------------------------- specification ----------------------------- *)
\* subscriber tables the bot handlers can have committed
Stores == {
    <<Row(100, <<"1", ",", "5">>), Row(200, <<"1", "0">>), Row(300, <<"5">>)>>,
    <<Row(300, <<"1", "0", ",", "1">>)>> }

\* the program after construction
Constructed(locs) ==
    /\ locations = locs
    /\ auth_token = NoneValue
    /\ sm_lock = "free"
    /\ os = [t \in Threads |-> NoCall]
    /\ availability_data = [l \in Range(Locs) |-> <<>>]
    /\ lock = "free"
    /\ subscribers \in Stores
    /\ pc = "idle"
    /\ loc_idx = 1
    /\ headers = NoneValue
    /\ dates_list = <<>>
    /\ step = NoStep
    /\ requested = <<>>
    /\ failed = {}
    /\ fetch_exit = "none"
    /\ cycles = 0
    /\ refreshes = 0
    /\ held = FALSE
    /\ copy = NoCopy
    /\ reads = 0
    /\ ops = 0
    /\ conv = [u \in Users |-> [subscribe |-> END, update |-> END]]
    /\ last = NoUpdate
    /\ unsub_at = [c \in BotChats |-> {}]
    /\ parse = NotParsed

\* the program configured with the model's locations
Started == Constructed(Configured(NumLocations))

\* the scheduler's jobs alone, started by setup_scheduler: no user writes to
\* the bot
Init ==
    Started /\ updates = 0 /\ main_pc = "serving" /\ new_dates = <<>> /\ work = NoWork

Next ==
    \/ RefreshStart
    \/ RefreshLock
    \/ RefreshAttempt
    \/ FetchStart
    \/ FetchCheckToken
    \/ FetchOpenLock
    \/ FetchOpenAttempt
    \/ FetchBuildHeaders
    \/ FetchRequest
    \/ FetchRetryToken
    \/ FetchRetryRequest
    \/ ProcessDataLock
    \/ ProcessDataCompare
    \/ NotifySubscribers
    \/ FetchNext

Spec == Init /\ [][Next]_vars

\* a fetch thread beside threads that read the snapshot mapping
NextReader ==
    \/ FetchStart
    \/ FetchCheckToken
    \/ FetchOpenLock
    \/ FetchOpenAttempt
    \/ FetchBuildHeaders
    \/ FetchRequest
    \/ FetchRetryToken
    \/ FetchRetryRequest
    \/ ProcessDataLock
    \/ ProcessDataCompare
    \/ NotifySubscribers
    \/ FetchNext
    \/ GetAvailabilityData
    \/ CallerReplaceEntry
    \/ CallerMutateList

SpecReader == Init /\ [][NextReader]_vars

\* the program from its start: app.py's start-up before the scheduler, or the
\* scheduler as setup_scheduler starts it
InitApp ==
    /\ Started /\ updates = 0 /\ main_pc \in {"start", "serving"}
    /\ new_dates = <<>> /\ work = NoWork

NextApp ==
    \/ MainOpenSession
    \/ MainOpenLock
    \/ MainOpenAttempt
    \/ MainFetch
    \/ MainStartScheduler
    \/ Next

SpecApp == InitApp /\ [][NextApp]_vars

\* the dispatcher thread: one update at a time
BotSubscribe == \E u \in Users : Subscribe(u)
BotLocationSelection ==
    \E u \in Users, input_text \in Inputs, commit \in Commits :
        LocationSelection(u, input_text, commit)
BotUpdateSubscription == \E u \in Users : UpdateSubscription(u)
BotNewLocationSelection ==
    \E u \in Users, input_text \in Inputs, commit \in Commits :
        NewLocationSelection(u, input_text, commit)
BotUnsubscribe == \E u \in Users, commit \in Commits : Unsubscribe(u, commit)
BotCancel == \E u \in Users : Cancel(u)

\* the bot's handlers alone
InitBot ==
    /\ Started /\ updates = MaxUpdates /\ main_pc = "serving"
    /\ new_dates = <<>> /\ work = NoWork

NextBot ==
    \/ BotSubscribe
    \/ BotLocationSelection
    \/ BotUpdateSubscription
    \/ BotNewLocationSelection
    \/ BotUnsubscribe
    \/ BotCancel

SpecBot == InitBot /\ [][NextBot]_vars

\* the fetch job beside the dispatcher thread, with one user who leaves and
\* comes back
Leaver == {"u1"}
LeaverSubscribe == \E u \in Leaver : Subscribe(u)
LeaverLocationSelection ==
    \E u \in Leaver, input_text \in Inputs, commit \in Commits :
        LocationSelection(u, input_text, commit)
LeaverUnsubscribe == \E u \in Leaver, commit \in Commits : Unsubscribe(u, commit)

InitNotify ==
    /\ Started
    /\ \A u \in Leaver : First(subscribers, ChatOf(u)) # 0
    /\ updates = MaxUpdatesBesideFetch
    /\ main_pc = "serving"
    /\ new_dates = <<>>
    /\ work = NoWork

NextNotify ==
    \/ FetchStart
    \/ FetchCheckToken
    \/ FetchOpenLock
    \/ FetchOpenAttempt
    \/ FetchBuildHeaders
    \/ FetchRequest
    \/ FetchRetryToken
    \/ FetchRetryRequest
    \/ ProcessDataLock
    \/ ProcessDataCompare
    \/ NotifySubscribers
    \/ FetchNext
    \/ LeaverSubscribe
    \/ LeaverLocationSelection
    \/ LeaverUnsubscribe

SpecNotify == InitNotify /\ [][NextNotify]_vars

(* ------------------------------- claims -------------------------------- *)
\* the fetch thread stands at the end of the loop body of a pass in which
\* process_data compared the parsed list with the stored one
Compared == pc \in {"pd_notify", "loc_done"} /\ step.compared

SameSet(a, b) == \A x \in Range(a) \cup Range(b) : x \in Range(a) /\ x \in Range(b)

\* C1: when the set of the parsed date strings equals the set of the stored
\* list (whatever order and duplicates), process_data sends nothing for the
\* location, queries no subscriber, and leaves the stored list as it was.
C1_UnchangedSetNoNotification ==
    (Compared /\ SameSet(dates_list, step.prev))
        => /\ pc = "loc_done"
           /\ availability_data[location] = step.prev
           /\ step.deliveries = <<>>
           /\ step.query = "none"

\* C1's case: a stored non-empty list, and a parsed list with the same set in
\* another order or with a duplicate
C1_Witness ==
    /\ pc = "loc_done"
    /\ step.compared
    /\ step.prev # <<>>
    /\ dates_list # step.prev
    /\ SameSet(dates_list, step.prev)

\* the send_message calls of the current batch that carry the new list to chat
SentTo(chat) ==
    {k \in 1..Len(step.deliveries) :
        /\ step.deliveries[k].chat_id = chat
        /\ step.deliveries[k].text = Message(location, dates_list)}

\* the batch is the one the claim asks for: one send_message call per
\* interested row, none for the other rows
BatchToInterested ==
    /\ \A k \in 1..Len(subscribers) :
        Cardinality(SentTo(subscribers[k].chat_id)) =
            IF Interested(subscribers[k], location) THEN 1 ELSE 0
    /\ Len(step.deliveries) =
            Cardinality({k \in 1..Len(subscribers) : Interested(subscribers[k], location)})

\* C2: when the set of the parsed dates differs from the set of the stored
\* list, the stored list becomes the parsed list and exactly one message with
\* the new list goes to each subscriber whose interest list holds str(L) as a
\* whole element, and none to any other subscriber.
C2_ChangedSetNotifiesInterested ==
    (pc = "loc_done" /\ step.compared /\ ~SameSet(dates_list, step.prev))
        => /\ availability_data[location] = dates_list
           /\ BatchToInterested

\* what the code does keep of C2: the replacement always, the batch when the
\* query of the subscribers table succeeds
ChangedSetNotifiesWhenQueried ==
    (pc = "loc_done" /\ step.compared /\ ~SameSet(dates_list, step.prev))
        => /\ availability_data[location] = dates_list
           /\ step.query \in {"ok", "fail"}
           /\ (step.query = "ok" => BatchToInterested)
           /\ (step.query = "fail" => step.deliveries = <<>>)

\* a step of a caller on the value get_availability_data() gave it
CallerStep == held /\ ops' = ops + 1

\* C3: whatever a caller does to the value get_availability_data() returned,
\* the fetcher's stored list of every location stays what it was.
C3_CopyIsolation == [][CallerStep => availability_data' = availability_data]_vars

\* C4: the token changes only in an open_session call that reports success; a
\* call that returns failure, and get_auth_token, leave it as it was.
C4_TokenChangesOnlyOnSuccess ==
    [][auth_token' # auth_token =>
        \E t \in Threads : os[t].pc = "attempt" /\ ReturnedTrue(os'[t].result)]_vars

\* C5: one open_session call makes at most 5 session-creation requests: a
\* call that has made 5 makes no 6th, the 5th pass always ends the call, and
\* the call that ends because all passes failed (transport error, error
\* status, unparseable body) ends with its 5th pass and returns False.
C5_AtMostFiveAttempts ==
    /\ [](\A t \in Threads : /\ os[t].attempt <= 5
                              /\ (os[t].pc = "attempt" => os[t].attempt < 5))
    /\ [][\A t \in Threads :
            /\ (os[t].pc = "attempt" /\ os[t].attempt = 4 /\ os'[t] # os[t])
                    => (os'[t].pc = "none" /\ os'[t].result # "none")
            /\ (os[t].pc = "attempt" /\ os'[t].result = "false_exhausted")
                    => (os[t].attempt = 4 /\ ReturnedFalse(os'[t].result)
                        /\ auth_token' = auth_token)]_vars

\* C5's case: a call that returned False after five failed passes
C5_Witness == \E t \in Threads : os[t].result = "false_exhausted"

\* nothing of the pass touched the location: no comparison, no replacement,
\* no notification
Untouched ==
    /\ ~step.compared
    /\ availability_data[location] = step.before
    /\ step.deliveries = <<>>
    /\ step.query = "none"

\* C6: in the pass of one location a 401 leads to at most one open_session
\* call and at most one retry; a failed re-open is followed by no retry; a
\* retry that is rejected leaves the stored list as it was, notifies nobody,
\* and the loop goes on.
C6_OneReopenOneRetry ==
    /\ step.opens <= 1
    /\ step.reqs <= 2
    /\ (step.reqs = 2 => step.opens = 1 /\ os["fetch"].result = "true")
    /\ (step.opens = 1 /\ os["fetch"].result \in {"false_no_id", "false_exhausted", "raise"})
            => (pc = "loc_done" /\ step.reqs = 1 /\ Untouched /\ fetch_exit = "none")
    /\ (step.retry \in {"401", "500", "exception"})
            => (pc = "loc_done" /\ step.reqs = 2 /\ Untouched /\ fetch_exit = "none")

\* C6's case: the retry after a successful re-open is rejected with 401 again,
\* for a location with a stored non-empty list
C6_Witness ==
    /\ pc = "loc_done"
    /\ step.opens = 1
    /\ step.reqs = 2
    /\ step.retry = "401"
    /\ step.before # <<>>

InLoop == pc \in {"request", "reopen", "retry_token", "retry_request",
                  "pd_lock", "pd_compare", "pd_notify", "loc_done"}

\* C7: a cycle that gets past the token check requests every configured
\* location in order, whatever failed for the locations before, and ends by
\* falling off the loop; no pass ends the cycle.
C7_EveryLocationRequested ==
    /\ InLoop => /\ fetch_exit = "none"
                 /\ requested = SubSeq(Locs, 1, IF pc = "request"
                                                THEN loc_idx - 1 ELSE loc_idx)
    /\ (pc = "idle" /\ cycles > 0 /\ fetch_exit \notin {"no_session", "raise"})
            => (fetch_exit = "return" /\ requested = Locs)
    /\ failed \subseteq Range(requested)

\* C7's case: the pass of the first location failed and the second location is
\* fetched and its list replaced in the same cycle
C7_Witness ==
    /\ pc = "loc_done"
    /\ loc_idx = 2
    /\ Locs[1] \in failed
    /\ step.compared
    /\ availability_data[location] # step.before
    /\ availability_data[location] = dates_list

\* C8: a cycle that starts without a token and whose open_session returns
\* False ends at once: no request, no comparison or replacement, no message.
C8_NoSessionEndsCycle ==
    fetch_exit = "no_session"
        => /\ pc = "idle"
           /\ requested = <<>>
           /\ step = NoStep
           /\ dates_list = <<>>
           /\ lock = "free"

\* C8's case: a second cycle, with lists stored by the first, ends for want of
\* a session
C8_Witness ==
    /\ fetch_exit = "no_session"
    /\ cycles = 2
    /\ \E l \in Range(Locs) : availability_data[l] # <<>>

\* the fetch thread issues an availability request in this step
IssuesRequest == pc \in {"request", "retry_request"} /\ pc' # pc

\* C9: every availability request carries the token the session manager holds
\* when the request is issued.
C9_RequestCarriesCurrentToken == [][IssuesRequest => headers = auth_token]_vars

\* C10: open_session returns True or False and fetch_availability returns
\* normally, whatever the remote service, the store and the deliveries do.
C10_NoFaultEscapes ==
    /\ \A t \in Threads : os[t].result # "raise"
    /\ fetch_exit # "raise"

\* C11: a 200 answer whose body has no 'availability-dates' counts as a failed
\* fetch of the location: the stored list stays as it was, nobody is notified,
\* and the loop goes on.
C11_MissingFieldIsFailure ==
    (pc \in {"pd_notify", "loc_done"} /\ step.field = "missing")
        => /\ pc = "loc_done"
           /\ availability_data[location] = step.before
           /\ step.deliveries = <<>>
           /\ step.query = "none"
           /\ fetch_exit = "none"

\* a send_message call of the current batch raised
SomeDeliveryFailed == \E k \in 1..Len(step.deliveries) : ~step.deliveries[k].ok

\* C12: a send_message that raises for one subscriber does not stop the
\* batch: every subscriber whose interest list holds the location gets
\* exactly one delivery attempt, wherever the failing one stands.
C12_FailedDeliveryDoesNotStopBatch ==
    (pc = "loc_done" /\ step.query = "ok" /\ SomeDeliveryFailed)
        => \A k \in 1..Len(subscribers) :
              Interested(subscribers[k], location)
                  => Cardinality(SentTo(subscribers[k].chat_id)) = 1

\* C12's case: the first delivery of a batch raised and a later subscriber
\* was still served
C12_Witness ==
    /\ pc = "loc_done"
    /\ step.query = "ok"
    /\ Len(step.deliveries) >= 2
    /\ ~step.deliveries[1].ok
    /\ step.deliveries[2].ok
    /\ step.deliveries[2].chat_id # step.deliveries[1].chat_id

\* the fetch thread's get_auth_token() call returns in this step
ReadsToken == pc \in {"check_token", "build_headers", "retry_token"} /\ pc' # pc

\* C13: open_session and get_auth_token exclude each other: the lock has one
\* holder, a thread is between the passes of open_session only as that holder,
\* get_auth_token returns only while no open_session call is inside, and it
\* returns the token then held; inside a call the token is still the one from
\* before the call until the call's last pass, so no value in between exists.
C13_TokenAccessExclusive ==
    /\ [](\A t \in Threads : os[t].pc = "attempt" <=> sm_lock = t)
    /\ [](\A t \in Threads : os[t].pc = "attempt" => auth_token = os[t].before)
    /\ [][ReadsToken => /\ sm_lock = "free"
                        /\ \A t \in Threads : os[t].pc # "attempt"
                        /\ (pc # "check_token" => headers' = auth_token)]_vars

\* C13's case: the fetch thread stands at get_auth_token() while the refresh
\* job's open_session is between its retries
C13_Witness ==
    /\ pc \in {"check_token", "build_headers", "retry_token"}
    /\ os["refresh"].pc = "attempt"
    /\ os["refresh"].attempt >= 2

\* process_data is between taking the lock and leaving the with block
InProcessData == pc \in {"pd_compare", "pd_notify"}

\* C14: the comparison with the stored list and its replacement are one
\* atomic unit: the fetch thread holds the lock from before the comparison
\* until after the replacement (and the notification), a stored list changes
\* only in a step of that holder, and get_availability_data() returns only
\* while no process_data is inside, with the stored list of that moment.
C14_CompareReplaceAtomic ==
    /\ [](InProcessData <=> lock = "fetch")
    /\ [][(reads' # reads) => /\ ~InProcessData
                              /\ lock = "free"
                              /\ copy'.list = availability_data[copy'.loc]]_vars
    /\ [][(availability_data' # availability_data /\ ~CallerStep)
              => /\ pc = "pd_compare" /\ lock = "fetch"
                 /\ \E l \in Range(Locs) :
                      availability_data' = [availability_data EXCEPT ![l] = dates_list]]_vars

\* C14's case: a reader got the mapping between two updates and the fetch
\* thread has since replaced the list the reader holds
C14_Witness ==
    /\ held
    /\ pc = "pd_notify"
    /\ copy.loc = location
    /\ copy.list = step.prev
    /\ copy.list # <<>>
    /\ availability_data[location] # copy.list

\* the answers open_session logs and retries after
Retried(outcome) == outcome.kind \in {"transport", "http_error", "invalid_json"}

\* C20: an answer whose JSON object has no id, or an empty one, ends the call
\* at once with False, whatever the number of the pass, while a transport
\* error, an error status or a body that is no JSON goes on to the next pass
\* (before the 5th); a pass that changes the token is the last of its call.
C20_NoIdEndsCallAtOnce ==
    /\ [](\A n \in 1..max_attempts, outcome \in PostOutcomes :
            /\ (outcome.kind = "object" /\ Falsy(outcome.id))
                    => (CallResult(n, outcome) = "false_no_id"
                        /\ ReturnedFalse(CallResult(n, outcome)))
            /\ (Retried(outcome) /\ n < max_attempts) => CallResult(n, outcome) = "none")
    /\ [][\A t \in Threads :
            (os[t].pc = "attempt" /\ os'[t] # os[t])
                => /\ (os'[t].result = "false_no_id")
                        => /\ os'[t].pc = "none"
                           /\ os'[t].attempt = os[t].attempt + 1
                           /\ Falsy(auth_token')
                           /\ sm_lock' = "free"
                   /\ (os'[t].pc = "attempt")
                        => /\ os'[t].attempt = os[t].attempt + 1
                           /\ auth_token' = auth_token
                           /\ sm_lock' = t]_vars

\* C20's case: a call whose first passes failed and were retried, ended by an
\* answer without an id before the 5th pass
C20_Witness ==
    \E t \in Threads : os[t].result = "false_no_id" /\ os[t].attempt \in 2..4

\* C15: the subscribers table holds at most one row per chat id, whatever
\* the users send and in whatever order, two subscribe conversations of one
\* chat that are both past the 'already subscribed' check included.
C15_OneRecordPerChat ==
    \A i, j \in 1..Len(subscribers) :
        subscribers[i].chat_id = subscribers[j].chat_id => i = j

\* C15's case: a second subscribe conversation of the chat, past the check,
\* tried to add its row after the first had committed one
C15_Witness ==
    /\ last.handler = "location_selection"
    /\ last.outcome = "integrity_error"
    /\ \E k \in 1..Len(subscribers) : subscribers[k].chat_id \in BotChats

\* a string of the digits 0-9 that names a configured location
NamesLocation(text) ==
    /\ text # <<>>
    /\ \A k \in 1..Len(text) : text[k] \in Range(Digits)
    /\ \E l \in LocationIds : IntOf(text) = l

\* the interest list is not empty and each element is str(l) of a configured l
ValidInterests(text) ==
    /\ Split(text) # <<>>
    /\ \A k \in 1..Len(Split(text)) : \E l \in LocationIds : Split(text)[k] = Str(l)

\* some element of the input, blanks at its ends apart, names no location
HasBadElement(input_text) ==
    \E k \in 1..Len(Split(input_text)) : ~NamesLocation(Strip(Split(input_text)[k]))

\* the handler of a selection state has handled a message in this step
SelectionStep ==
    /\ updates' # updates
    /\ last'.handler \in {"location_selection", "new_location_selection"}

\* C16: every row of the table holds a non-empty interest list of decimal
\* strings of configured location ids; an input with an element that names
\* no configured location is never written, and the message that carries it
\* leaves the table and the conversation states as they were.
C16_CommittedInterestsValid ==
    /\ [](\A k \in 1..Len(subscribers) : ValidInterests(subscribers[k].preferred_locations))
    /\ [](\A input_text \in Inputs :
            HasBadElement(input_text) => Selection(input_text).status # "write")
    /\ [][(SelectionStep /\ last'.outcome \in {"invalid", "raise"})
              => (subscribers' = subscribers /\ conv' = conv)]_vars
    /\ [][(SelectionStep /\ subscribers' # subscribers) => last'.outcome = "committed"]_vars

\* C16's case: a selection with blanks and several ids was committed as the
\* joined decimal strings
C16_Witness ==
    /\ last.handler \in {"location_selection", "new_location_selection"}
    /\ last.outcome = "committed"
    /\ \E k \in 1..Len(subscribers) :
          /\ subscribers[k].chat_id \in BotChats
          /\ subscribers[k].preferred_locations = <<"5", ",", "1">>

\* C17: a write to the subscribers table that fails inside a handler leaves
\* the table as it was before the handler ran, and the user is sent the
\* generic failure message.
C17_FailedWriteLeavesStore ==
    [][(updates' # updates /\ last'.outcome \in {"db_error", "integrity_error"})
          => (subscribers' = subscribers /\ last'.reply = "error")]_vars

\* C17's case: the commit of a changed interest list failed
C17_Witness ==
    /\ last.handler = "new_location_selection"
    /\ last.outcome = "db_error"
    /\ last.reply = "error"

\* C18: a fetch cycle that starts after the unsubscribe of a chat committed
\* makes no send_message call for that chat, as long as the chat has not
\* subscribed again.
C18_NoDeliveryAfterUnsubscribe ==
    \A k \in 1..Len(step.deliveries) :
        step.deliveries[k].chat_id \in BotChats
            => \A n \in unsub_at[step.deliveries[k].chat_id] : cycles <= n

\* C18's case: a location the chat was interested in changed in a cycle
\* started after the chat's unsubscribe, and the batch went out without it
C18_Witness ==
    /\ pc = "loc_done"
    /\ step.query = "ok"
    /\ location = 1
    /\ availability_data[location] # step.prev
    /\ \E c \in BotChats : unsub_at[c] # {} /\ \A n \in unsub_at[c] : cycles > n

\* the chat subscribed again and is served again
C18_ServedAgain ==
    /\ pc = "loc_done"
    /\ \E k \in 1..Len(step.deliveries) : step.deliveries[k].chat_id \in BotChats
    /\ last.handler = "location_selection"
    /\ last.outcome = "committed"

InitParse ==
    /\ Started
    /\ updates = 0
    /\ main_pc = "serving"
    /\ new_dates \in EntryLists
    /\ work = NoWork

NextParse == ProcessDataParse

SpecParse == InitParse /\ [][NextParse]_vars

\* the two jobs and a reader of the snapshot, with threads that are scheduled
\* again and again and remote calls that return: one fetch cycle, one refresh
\* run, one get_availability_data call, a table of one subscriber
InitLocks == Init /\ Len(subscribers) = 1

LockFetchStart == cycles < MaxLockCycles /\ FetchStart

FetchThread ==
    \/ FetchCheckToken
    \/ FetchOpenLock
    \/ FetchOpenAttempt
    \/ FetchBuildHeaders
    \/ FetchRequest
    \/ FetchRetryToken
    \/ FetchRetryRequest
    \/ ProcessDataLock
    \/ ProcessDataCompare
    \/ NotifySubscribers
    \/ FetchNext

RefreshThread == RefreshLock \/ RefreshAttempt

NextLocks ==
    \/ RefreshStart
    \/ RefreshLock
    \/ RefreshAttempt
    \/ LockFetchStart
    \/ FetchCheckToken
    \/ FetchOpenLock
    \/ FetchOpenAttempt
    \/ FetchBuildHeaders
    \/ FetchRequest
    \/ FetchRetryToken
    \/ FetchRetryRequest
    \/ ProcessDataLock
    \/ ProcessDataCompare
    \/ NotifySubscribers
    \/ FetchNext
    \/ GetAvailabilityData

SpecLocks ==
    /\ InitLocks
    /\ [][NextLocks]_vars
    /\ WF_vars(FetchThread)
    /\ WF_vars(RefreshThread)

\* one fetch cycle on its own, its remote work counted
InitWork ==
    /\ Started
    /\ updates = 0
    /\ main_pc = "serving"
    /\ new_dates = <<>>
    /\ work = [NoWork EXCEPT !.on = TRUE]

NextWork ==
    \/ LockFetchStart
    \/ FetchCheckToken
    \/ FetchOpenLock
    \/ FetchOpenAttempt
    \/ FetchBuildHeaders
    \/ FetchRequest
    \/ FetchRetryToken
    \/ FetchRetryRequest
    \/ ProcessDataLock
    \/ ProcessDataCompare
    \/ NotifySubscribers
    \/ FetchNext

SpecWork == InitWork /\ [][NextWork]_vars /\ WF_vars(FetchThread)

\* one fetch cycle over three locations, its Authorization values tracked
InitHeaders ==
    /\ Constructed(Configured(MoreLocations))
    /\ Len(subscribers) = 1
    /\ updates = 0
    /\ main_pc = "serving"
    /\ new_dates = <<>>
    /\ work = [NoWork EXCEPT !.track = TRUE]

NextHeaders ==
    \/ LockFetchStart
    \/ FetchCheckToken
    \/ FetchOpenLock
    \/ FetchOpenAttempt
    \/ FetchBuildHeaders
    \/ FetchRequest
    \/ FetchRetryToken
    \/ FetchRetryRequest
    \/ ProcessDataLock
    \/ ProcessDataCompare
    \/ NotifySubscribers
    \/ FetchNext

SpecHeaders == InitHeaders /\ [][NextHeaders]_vars

\* a list of date strings
IsDateList(v) ==
    /\ DOMAIN v = 1..Len(v)
    /\ \A k \in 1..Len(v) : v[k] \in Range(DateTexts)

\* C21: the snapshot mapping has exactly the configured locations as keys,
\* each with a list of date strings, whatever the fetch cycles met; before the
\* first cycle every list is empty.
C21_SnapshotKeysFixed ==
    /\ DOMAIN availability_data = Range(Locs)
    /\ \A l \in Range(Locs) : IsDateList(availability_data[l])
    /\ cycles = 0 => \A l \in Range(Locs) : availability_data[l] = <<>>

\* C21's case: a list that was stored has been replaced by the empty list
C21_Witness ==
    /\ pc = "loc_done"
    /\ step.compared
    /\ step.prev # <<>>
    /\ availability_data[location] = <<>>
    /\ \E l \in Range(Locs) : availability_data[l] # <<>>

\* what an entry of each shape is to contribute: the date of an integer
\* timestamp, a string as it is, nothing for any other value; the same for
\* the value bare and under 'date'
ByShape(entry) ==
    CASE entry.type = "int" -> <<StrFTime(entry.int)>>
      [] entry.type = "str" -> <<entry.str>>
      [] OTHER -> <<>>

RECURSIVE KeptInOrder(_)
KeptInOrder(entries) ==
    IF entries = <<>> THEN <<>>
    ELSE ByShape(Head(entries)) \o KeptInOrder(Tail(entries))

\* C22: the parse loop maps each entry by its shape (an integer timestamp and
\* a string, bare or under 'date', give the date string; any other entry gives
\* nothing and does not stop the loop) and keeps the order of the kept entries.
C22_ParseByShape == parse.done => parse.dates = KeptInOrder(new_dates)

\* the same without the JSON value true among the entries
ParseByShapeWithoutBooleans ==
    (parse.done /\ \A k \in 1..Len(new_dates) : new_dates[k].type # "bool")
        => parse.dates = KeptInOrder(new_dates)

\* a list with an integer, a string and another value, bare and wrapped, parsed
ParsedMixedShapes ==
    /\ parse.done
    /\ Len(new_dates) = 2
    /\ new_dates[1].type = "other"
    /\ new_dates[2].type = "int" /\ new_dates[2].wrapped
    /\ parse.dates = <<"02.01.1970">>

\* C23: the snapshot of a changed location holds the new list before any
\* delivery is attempted and still holds it when the notification step is over,
\* whether deliveries or the subscriber query failed; the snapshots of the
\* other locations are the same before and after.
C23_ReplacementKept ==
    /\ [](pc = "pd_notify" =>
            /\ availability_data[location] = dates_list
            /\ step.query = "none"
            /\ step.deliveries = <<>>)
    /\ []((pc = "loc_done" /\ step.compared /\ DatesDiffer(dates_list, step.prev)) =>
            availability_data[location] = dates_list)
    /\ [][(pc = "pd_compare" \/ pc = "pd_notify") =>
            (\A l \in Range(Locs) \ {location} :
                availability_data'[l] = availability_data[l])]_vars

\* C23's case: the query failed after a replacement, another location has dates
C23_Witness ==
    /\ pc = "loc_done"
    /\ step.query = "fail"
    /\ step.prev # <<>>
    /\ availability_data[location] = dates_list
    /\ dates_list # step.prev
    /\ \E l \in Range(Locs) \ {location} : availability_data[l] # <<>>

\* C24: no availability request, first or retried, is issued with an absent
\* (None or empty) token in its Authorization header, however the fetch cycle
\* and the session-refresh job interleave.
C24_NoRequestWithAbsentToken == [][IssuesRequest => ~Falsy(headers)]_vars

\* a thread is at a point where it asks for the session lock
AsksSessionLock(t) ==
    \/ os[t].pc = "lock"
    \/ t = "fetch" /\ pc \in {"build_headers", "retry_token"}

\* the fetch thread asks for the fetcher lock
AsksFetcherLock == pc = "pd_lock"

\* no thread asks for a lock while it holds that lock or the other one, and
\* a thread outside the with blocks holds no lock
LockDiscipline ==
    /\ \A t \in Threads : AsksSessionLock(t) => (sm_lock # t /\ lock # t)
    /\ AsksFetcherLock => (lock # "fetch" /\ sm_lock # "fetch")
    /\ \A t \in Threads : ~(sm_lock = t /\ lock = t)
    /\ \A t \in Threads : os[t].pc \in {"none", "lock"} => sm_lock # t
    /\ pc \notin {"pd_compare", "pd_notify"} => lock # "fetch"
    /\ lock # "refresh"

\* C25: no deadlock: no thread asks for one lock while holding it or the
\* other, every lock is released on every exit path, also when the
\* notification step raises, and every call that asks for a lock gets it in
\* the end when remote calls return.
C25_NoDeadlock ==
    /\ []LockDiscipline
    /\ \A t \in Threads : (os[t].pc = "lock") ~> (sm_lock = t)
    /\ (pc = "build_headers") ~> (pc = "request")
    /\ (pc = "retry_token") ~> (pc = "retry_request")
    /\ AsksFetcherLock ~> (lock = "fetch")
    /\ (lock # "free") ~> (lock = "free")
    /\ (sm_lock # "free") ~> (sm_lock = "free")

\* C25's case: the fetch thread waits for the session lock the refresh run
\* holds
C25_Witness ==
    /\ os["fetch"].pc = "lock"
    /\ pc = "reopen"
    /\ sm_lock = "refresh"
    /\ os["refresh"].attempt >= 1

\* a notification step that raised has left the fetcher lock free
C25_ReleasedAfterRaise ==
    /\ pc = "loc_done"
    /\ step.query = "fail"
    /\ lock = "free"

\* the header the claim expects for a token: the token, or 'null' when absent
ExpectedAuthorization(token) == IF token \in {NoneValue, ""} THEN "null" ELSE token

\* C26: result and token agree after open_session: a call that returns True
\* leaves a non-empty id as the token; a call that returns False after 5
\* attempts that ended in a transport error, an error status or an
\* unparseable body leaves the token held before the call, and every one of
\* its attempts sent that token, or 'null' when it was absent.
C26_ResultAndTokenAgree ==
    /\ [](\A t \in Threads : (os[t].pc = "attempt" /\ os[t].attempt >= 1) =>
            /\ auth_token = os[t].before
            /\ os[t].sent = ExpectedAuthorization(os[t].before))
    /\ [][\A t \in Threads :
            (os[t].pc = "attempt" /\ ReturnedTrue(os'[t].result)) =>
                (auth_token' \in Tokens /\ sm_lock' = "free")]_vars
    /\ [][\A t \in Threads :
            (os[t].pc = "attempt" /\ os'[t].result = "false_exhausted") =>
                /\ os[t].attempt = max_attempts - 1
                /\ auth_token' = os[t].before
                /\ os'[t].sent = ExpectedAuthorization(os[t].before)]_vars

\* C26's case: a call whose five attempts all failed has ended; it sent the
\* token 't1' each time and 't1' is still the token
C26_Witness ==
    \E t \in Threads :
        /\ os[t].result = "false_exhausted"
        /\ os[t].sent = "t1"
        /\ auth_token = "t1"

\* a call made without a token has ended the same way: it sent 'null'
C26_SentNull ==
    \E t \in Threads :
        /\ os[t].result = "false_exhausted"
        /\ os[t].sent = "null"
        /\ auth_token = NoneValue

\* C27: a fetch cycle ends, and for N configured locations it issues at most
\* 2*N availability requests and at most 5*(N+1) session-creation requests and
\* makes at most one notification batch per location, whatever the remote
\* service answers.
C27_BoundedRemoteWork ==
    /\ [](/\ work.reqs <= 2 * Len(Locs)
          /\ work.posts <= 5 * (Len(Locs) + 1)
          /\ \A l \in Range(Locs) : work.batches[l] <= 1)
    /\ (pc # "idle") ~> (pc = "idle")

\* C27's case: a cycle that reached both limits has ended: every open_session
\* call took five attempts, every location was requested twice
C27_Witness ==
    /\ pc = "idle"
    /\ fetch_exit = "return"
    /\ work.reqs = 2 * Len(Locs)
    /\ work.posts = 5 * (Len(Locs) + 1)
    /\ \E l \in Range(Locs) : work.batches[l] = 1

\* the first request of a location after the cycle's first
LaterFirstRequest == pc = "request" /\ pc' # "request" /\ loc_idx > 1

UpdateSelectionStep == updates' = updates - 1 /\ last'.handler = "new_location_selection"

\* the chat identities of a table
Identities(store) == {store[k].chat_id : k \in 1..Len(store)}

\* C29: the update flow never creates a subscriber record: when the record of
\* the chat was deleted after /update was accepted, a new location selection
\* commits nothing, the table still has no record of the chat, and the reply
\* is the generic failure message.
C29_UpdateNeverCreates ==
    [][UpdateSelectionStep =>
        /\ Len(subscribers') = Len(subscribers)
        /\ Identities(subscribers') = Identities(subscribers)
        /\ \A c \in BotChats :
              (First(subscribers, c) = 0 /\ last'.outcome \notin {"raise", "invalid"}) =>
                  /\ subscribers' = subscribers
                  /\ last'.outcome = "no_row"
                  /\ last'.reply = "error"]_vars

\* C29's case: a valid selection arrived for a chat whose record was deleted
\* while the update conversation was open
C29_Witness ==
    /\ last.handler = "new_location_selection"
    /\ last.outcome = "no_row"
    /\ last.reply = "error"
    /\ \A c \in BotChats : First(subscribers, c) = 0
    /\ \A u \in Users : conv[u].update = END

====
